---------------------------- MODULE Spec2Model ----------------------------
(***************************************************************************)
(* Canny edge detection (chfanghr/canny-go): the pipeline of               *)
(* CannyEdgeDetect as a state machine.  One action per stage               *)
(* (gaussianBlur, sobel, nonMaximumSuppression, doublethreshold), one      *)
(* action per iteration of edgeTracking's loop over the weak set (the set  *)
(* iterator yields its elements in no fixed order), and the return.        *)
(*                                                                         *)
(* Numbers.  Pixel intensities are uint8.  The convolution responses are   *)
(* sums of products of integers (sobel) or of integers and k/16 (blur),    *)
(* which float64 represents exactly, so they are kept as exact integers    *)
(* (the blur's in units of 1/16).  math.Sqrt is correctly rounded, and the *)
(* truncation of the square root of an integer n is the integer square     *)
(* root of n.  A threshold ratio is a number of twentieths; for every      *)
(* ratio of Ratios and every uint8 m and v, the float64 comparison         *)
(* v > ratio * m agrees with the exact one, 20 * v > num * m.  An angle    *)
(* atan(gy / gx) in degrees is kept as its tangent gy / gx, and compared   *)
(* with 22.5 and 67.5 degrees through tan(22.5) = sqrt(2) - 1 and          *)
(* tan(67.5) = sqrt(2) + 1.                                                *)
(***************************************************************************)
EXTENDS Integers, FiniteSets, Sequences, TLC

VARIABLES
    input,      \* the caller's grid, as handed to CannyEdgeDetect
    blur,       \* parameter blur
    minRatio,   \* parameter minRatio, in twentieths
    maxRatio,   \* parameter maxRatio, in twentieths
    castMode,   \* what the build makes of uint8(f) for f > 255
    pixels,     \* local pixels of CannyEdgeDetect
    angles,     \* local angles (directions), each a tangent [num, den]
    high,       \* local high, in twentieths
    low,        \* local low, in twentieths
    strong,     \* the Strong Set, coordinates <<x, y>>
    weak,       \* the Weak Set, coordinates <<x, y>>
    todo,       \* the weak coordinates the iterator has yet to yield
    pc          \* the position in CannyEdgeDetect

vars == <<input, blur, minRatio, maxRatio, castMode, pixels, angles,
          high, low, strong, weak, todo, pc>>

---------------------------------------------------------------------------
(* Bounds of the model. *)

\* Grids have 1..MaxDim rows and 1..MaxDim columns.
MaxDim == 4

\* An input grid is dark (0) but for at most one pixel, of a level of Levels.
Levels == {60, 255}

\* Threshold ratios, in units of 1 / RatioDen: 0, 0.2, 0.6, 1.
RatioDen == 20
Ratios == {0, 4, 12, 20}

CastModes == {"wrap", "saturate"}

---------------------------------------------------------------------------
(* Grids. *)

Height(p) == Cardinality(DOMAIN p)
Width(p) == Cardinality(DOMAIN p[0])

GrayPixel(yv, av) == [y |-> yv, a |-> av]

Coords(p) == {<<x, y>> : x \in 0..(Width(p) - 1), y \in 0..(Height(p) - 1)}

abs(x) == IF x < 0 THEN -x ELSE x

RECURSIVE IsqrtIter(_, _, _)
IsqrtIter(n, lo, hi) ==
    IF hi - lo <= 1 THEN lo
    ELSE LET mid == (lo + hi) \div 2
         IN  IF mid * mid <= n THEN IsqrtIter(n, mid, hi)
             ELSE IsqrtIter(n, lo, mid)

\* The truncation of math.Sqrt(n), n a natural number below 2^31: the search
\* stays below 46341, whose square is the first to exceed 2^31.
Sqrt(n) == IsqrtIter(n, 0, IF n < 46340 THEN n + 1 ELSE 46341)

\* uint8(f) for a truncated f >= 0.  Go leaves a float conversion that does
\* not fit the target type implementation-dependent: the build either keeps
\* the low 8 bits of the integer or saturates.
ToUint8(v, mode) ==
    IF v <= 255 THEN v
    ELSE IF mode = "wrap" THEN v % 256 ELSE 255

---------------------------------------------------------------------------
(* Sampling with reflection at the edges. *)

\* A variant of MatrixIndex that clamps to the edge cell instead of
\* reflecting.
MatrixIndexClamped(pos, i, size) ==
    IF i < 0 THEN 0
    ELSE IF i >= size THEN size - 1
    ELSE i

\* The row (column) read for window position i around pos, in a grid of
\* size rows (columns): the if / else-if / else of getSorroundingPixelMatrix.
MatrixIndex(pos, i, size) ==
    IF i < 0 THEN pos + abs(i)
    ELSE IF i >= size THEN pos - (i - size + 1)
    ELSE i

\* The coordinates <<curY, curX>> getSorroundingPixelMatrix reads, in the
\* order it appends their values.
MatrixCoords(p, posY, posX, length) ==
    LET padding == length \div 2
    IN  [k \in 0..(length * length - 1) |->
            <<MatrixIndex(posY, posY - padding + (k \div length), Height(p)),
              MatrixIndex(posX, posX - padding + (k % length), Width(p))>>]

InGrid(p, yx) ==
    /\ 0 <= yx[1] /\ yx[1] < Height(p)
    /\ 0 <= yx[2] /\ yx[2] < Width(p)

\* getSorroundingPixelMatrix fails: an even length, or an index out of range.
MatrixPanics(p, posY, posX, length) ==
    \/ length % 2 = 0
    \/ LET c == MatrixCoords(p, posY, posX, length)
       IN  \E k \in 0..(length * length - 1) : ~InGrid(p, c[k])

getSorroundingPixelMatrix(p, posY, posX, length) ==
    LET c == MatrixCoords(p, posY, posX, length)
    IN  [k \in 0..(length * length - 1) |-> p[c[k][1]][c[k][2]].y]

\* A variant of VectorIndex that does not reflect at the edges.
VectorIndexUnreflected(pos, i, size) == i

\* The index getPixelVector reads for window position i around pos, in a
\* row (column) of size cells.
VectorIndex(pos, i, size) ==
    IF i < 0 THEN pos + abs(i)
    ELSE IF i >= size THEN pos - (i - size + 1)
    ELSE i

\* The coordinates <<y, x>> getPixelVector reads, in order.
VectorCoords(p, posY, posX, length, dir) ==
    LET padding == length \div 2
    IN  [k \in 0..(length - 1) |->
            IF dir = "HORIZONTAL"
            THEN <<posY, VectorIndex(posX, posX - padding + k, Width(p))>>
            ELSE <<VectorIndex(posY, posY - padding + k, Height(p)), posX>>]

VectorPanics(p, posY, posX, length, dir) ==
    \/ length % 2 = 0
    \/ LET c == VectorCoords(p, posY, posX, length, dir)
       IN  \E k \in 0..(length - 1) : ~InGrid(p, c[k])

getPixelVector(p, posY, posX, length, dir) ==
    LET c == VectorCoords(p, posY, posX, length, dir)
    IN  [k \in 0..(length - 1) |-> p[c[k][1]][c[k][2]].y]

---------------------------------------------------------------------------
(* Convolution and the kernels. *)

RECURSIVE SumProducts(_, _, _)
SumProducts(a, b, n) ==
    IF n = 0 THEN 0 ELSE a[n - 1] * b[n - 1] + SumProducts(a, b, n - 1)

\* innerProduct, for vectors indexed from 0.
innerProduct(v, kernel) == SumProducts(v, kernel, Cardinality(DOMAIN kernel))

\* convolve, for matrices flattened row by row.
convolve(m1, m2) == SumProducts(m1, m2, Cardinality(DOMAIN m2))

SOBEL_X == [k \in 0..8 |-> <<1, 0, -1, 2, 0, -2, 1, 0, -1>>[k + 1]]
SOBEL_Y == [k \in 0..8 |-> <<1, 2, 1, 0, 0, 0, -1, -2, -1>>[k + 1]]

RECURSIVE Binomial(_, _)
Binomial(n, k) ==
    IF k = 0 \/ k = n THEN 1
    ELSE Binomial(n - 1, k - 1) + Binomial(n - 1, k)

getPascalTriangleRow(index) == [i \in 0..index |-> Binomial(index, i)]

RECURSIVE VecSum(_, _)
VecSum(v, n) == IF n = 0 THEN 0 ELSE v[n - 1] + VecSum(v, n - 1)

\* normalizeVec scales by 1 / sum.  The sum of row 4 is 16, a power of two,
\* so the scaled weights and every product with them are exact; the kernel
\* is kept as the integer weights and their sum.
normalizeVec(v) == [weights |-> v, sum |-> VecSum(v, Cardinality(DOMAIN v))]

---------------------------------------------------------------------------
(* The stages. *)

KernelSize == 5
SobelSize == 3

Rows(p) == 0..(Height(p) - 1)
Cols(p) == 0..(Width(p) - 1)

gaussianBlurPanics(p, kernelSize) ==
    \/ kernelSize % 2 = 0
    \/ \E y \in Rows(p), x \in Cols(p) :
          \/ VectorPanics(p, y, x, kernelSize, "VERTICAL")
          \/ VectorPanics(p, y, x, kernelSize, "HORIZONTAL")

\* verticalSum and horizontalSum are v / 16 and h / 16 for the integers v,
\* h below, and the truncation of sqrt(v^2 + h^2) / 16 is the integer
\* quotient of the integer square root by 16.
gaussianBlur(p, kernelSize, mode) ==
    LET kernel == normalizeVec(getPascalTriangleRow(kernelSize - 1))
        n == Cardinality(DOMAIN kernel.weights)
    IN  [y \in Rows(p) |-> [x \in Cols(p) |->
            LET vecVert == getPixelVector(p, y, x, n, "VERTICAL")
                vecHor == getPixelVector(p, y, x, n, "HORIZONTAL")
                verticalSum == innerProduct(vecVert, kernel.weights)
                horizontalSum == innerProduct(vecHor, kernel.weights)
                combinedRes ==
                    ToUint8(Sqrt(verticalSum * verticalSum
                                 + horizontalSum * horizontalSum)
                            \div kernel.sum, mode)
            IN  GrayPixel(combinedRes, 255)]]

sobelPanics(p) ==
    \E y \in Rows(p), x \in Cols(p) : MatrixPanics(p, y, x, SobelSize)

\* The angle is kept as its tangent num / den; the degenerate case (either
\* response zero) is the angle 0, tangent 0 / 1.
sobel(p, mode) ==
    LET at(y, x) ==
            LET imagePane == getSorroundingPixelMatrix(p, y, x, SobelSize)
                sobelRes_X == convolve(imagePane, SOBEL_X)
                sobelRes_Y == convolve(imagePane, SOBEL_Y)
            IN  [pixel |-> GrayPixel(ToUint8(Sqrt(sobelRes_X * sobelRes_X
                                                  + sobelRes_Y * sobelRes_Y),
                                             mode), 255),
                 angle |-> IF sobelRes_X = 0 \/ sobelRes_Y = 0
                           THEN [num |-> 0, den |-> 1]
                           ELSE [num |-> sobelRes_Y, den |-> sobelRes_X]]
        res == [y \in Rows(p) |-> [x \in Cols(p) |-> at(y, x)]]
    IN  [result |-> [y \in Rows(p) |-> [x \in Cols(p) |-> res[y][x].pixel]],
         directions |-> [y \in Rows(p) |-> [x \in Cols(p) |-> res[y][x].angle]]]

\* dirVal >= bound, for bound one of -67.5, -22.5, 22.5, 67.5 degrees and
\* dirVal = atan(t.num / t.den) in degrees.  With s / a the tangent over a
\* positive denominator: s / a >= sqrt(2) - 1 iff s + a >= sqrt(2) * a, and
\* so on; no tangent of integers equals a bound.
DirGE(t, bound) ==
    LET a == abs(t.den)
        s == IF t.den < 0 THEN -t.num ELSE t.num
    IN  CASE bound = "67.5" -> s - a > 0 /\ (s - a) * (s - a) >= 2 * a * a
          [] bound = "22.5" -> s + a > 0 /\ (s + a) * (s + a) >= 2 * a * a
          [] bound = "-22.5" -> a - s <= 0 \/ 2 * a * a >= (a - s) * (a - s)
          [] bound = "-67.5" -> -s - a <= 0 \/ 2 * a * a >= (s + a) * (s + a)

\* The two neighbour offsets <<dy, dx>> of p and q that the bucket of
\* dirVal selects.
DirectionOffsets(dirVal) ==
    IF ~DirGE(dirVal, "-67.5") THEN <<<<-1, 0>>, <<1, 0>>>>
    ELSE IF ~DirGE(dirVal, "-22.5") THEN <<<<-1, 1>>, <<1, -1>>>>
    ELSE IF ~DirGE(dirVal, "22.5") THEN <<<<0, 1>>, <<0, -1>>>>
    ELSE IF ~DirGE(dirVal, "67.5") THEN <<<<1, 1>>, <<-1, -1>>>>
    ELSE <<<<1, 0>>, <<-1, 0>>>>

\* The coordinates <<pY, pX>> and <<qY, qX>> getPixelInGradientDirection
\* reads: each of the four indices, when out of range, is replaced by the
\* center's.
GradientCoords(p, directions, x, y) ==
    LET height == Height(p)
        width == Width(p)
        off == DirectionOffsets(directions[y][x])
        pY0 == y + off[1][1]
        pX0 == x + off[1][2]
        qY0 == y + off[2][1]
        qX0 == x + off[2][2]
        pY == IF pY0 < 0 \/ pY0 >= height THEN y ELSE pY0
        pX == IF pX0 < 0 \/ pX0 >= width THEN x ELSE pX0
        qY == IF qY0 < 0 \/ qY0 >= height THEN y ELSE qY0
        qX == IF qX0 < 0 \/ qX0 >= width THEN x ELSE qX0
    IN  <<<<pY, pX>>, <<qY, qX>>>>

getPixelInGradientDirection(p, directions, x, y) ==
    LET c == GradientCoords(p, directions, x, y)
    IN  [p |-> p[c[1][1]][c[1][2]], q |-> p[c[2][1]][c[2][2]]]

nonMaximumSuppressionPanics(p, directions) ==
    \/ Height(p) # Height(directions)
    \/ Width(p) # Width(directions)

nonMaximumSuppression(p, directions) ==
    [y \in Rows(p) |-> [x \in Cols(p) |->
        LET r == p[y][x]
            pq == getPixelInGradientDirection(p, directions, x, y)
        IN  IF pq.p.y > r.y \/ pq.q.y > r.y
            THEN GrayPixel(0, 255)
            ELSE r]]

MaxOf(S) ==
    IF S = {} THEN 0
    ELSE LET v == CHOOSE v \in S : \A u \in S : u <= v
         IN  v

maxPixelValue(p) == MaxOf({p[y][x].y : y \in Rows(p), x \in Cols(p)})

\* A variant of doublethreshold whose comparisons are not strict.
doublethresholdInclusive(p, hi, lo) ==
    LET pixVal(x, y) == RatioDen * p[y][x].y
        isStrong(x, y) == pixVal(x, y) >= hi
        isWeak(x, y) == ~isStrong(x, y) /\ hi >= pixVal(x, y) /\ pixVal(x, y) >= lo
    IN  [strong |-> {c \in Coords(p) : isStrong(c[1], c[2])},
         weak |-> {c \in Coords(p) : isWeak(c[1], c[2])},
         pixels |-> [y \in Rows(p) |-> [x \in Cols(p) |->
                        IF isStrong(x, y) \/ isWeak(x, y)
                        THEN p[y][x]
                        ELSE [p[y][x] EXCEPT !.y = 0]]]]

\* high and low are in units of 1 / RatioDen.
doublethreshold(p, hi, lo) ==
    LET pixVal(x, y) == RatioDen * p[y][x].y
        isStrong(x, y) == pixVal(x, y) > hi
        isWeak(x, y) == ~isStrong(x, y) /\ hi > pixVal(x, y) /\ pixVal(x, y) > lo
    IN  [strong |-> {c \in Coords(p) : isStrong(c[1], c[2])},
         weak |-> {c \in Coords(p) : isWeak(c[1], c[2])},
         pixels |-> [y \in Rows(p) |-> [x \in Cols(p) |->
                        IF isStrong(x, y) \/ isWeak(x, y)
                        THEN p[y][x]
                        ELSE [p[y][x] EXCEPT !.y = 0]]]]

Max(a, b) == IF a > b THEN a ELSE b
Min(a, b) == IF a < b THEN a ELSE b

getAdjacentPixels(p, x, y) ==
    LET height == Height(p)
        width == Width(p)
        minX == Max(0, x - 1)
        minY == Max(0, y - 1)
        maxX == Min(width, x + 1)
        maxY == Min(height, y + 1)
    IN  {<<j, i>> : j \in {j \in minX..(maxX - 1) : j # x},
                    i \in {i \in minY..(maxY - 1) : i # y}}

---------------------------------------------------------------------------
(* The state machine of CannyEdgeDetect. *)

\* The grid of h rows and w columns, dark but for level v at <<x, y>>; every
\* alpha is opaque.
Grid(h, w, lit, v) ==
    [y \in 0..(h - 1) |-> [x \in 0..(w - 1) |->
        GrayPixel(IF <<x, y>> = lit THEN v ELSE 0, 255)]]

Inputs ==
    UNION {{Grid(h, w, <<-1, -1>>, 0)}
           \cup {Grid(h, w, <<x, y>>, v) :
                    x \in 0..(w - 1), y \in 0..(h - 1), v \in Levels} :
           h \in 1..MaxDim, w \in 1..MaxDim}

NoAngles == <<>>

Entry(grids) ==
    /\ input \in grids
    /\ blur \in BOOLEAN
    /\ minRatio \in Ratios
    /\ maxRatio \in Ratios
    /\ castMode \in CastModes
    /\ pixels = input
    /\ angles = NoAngles
    /\ high = 0
    /\ low = 0
    /\ strong = {}
    /\ weak = {}
    /\ todo = {}
    /\ pc = "start"

Init == Entry(Inputs)

\* if blur { pixels = gaussianBlur(pixels, 5) }
BlurStep ==
    /\ pc = "start"
    /\ blur
    /\ IF gaussianBlurPanics(pixels, KernelSize)
       THEN pc' = "panic" /\ UNCHANGED pixels
       ELSE /\ pixels' = gaussianBlur(pixels, KernelSize, castMode)
            /\ pc' = "blurred"
    /\ UNCHANGED <<input, blur, minRatio, maxRatio, castMode, angles,
                   high, low, strong, weak, todo>>

\* pixels, angles := sobel(pixels)
SobelStep ==
    /\ \/ pc = "blurred"
       \/ pc = "start" /\ ~blur
    /\ IF sobelPanics(pixels)
       THEN pc' = "panic" /\ UNCHANGED <<pixels, angles>>
       ELSE LET r == sobel(pixels, castMode)
            IN  /\ pixels' = r.result
                /\ angles' = r.directions
                /\ pc' = "sobel"
    /\ UNCHANGED <<input, blur, minRatio, maxRatio, castMode,
                   high, low, strong, weak, todo>>

\* pixels = nonMaximumSuppression(pixels, angles)
NonMaximumSuppressionStep ==
    /\ pc = "sobel"
    /\ IF nonMaximumSuppressionPanics(pixels, angles)
       THEN pc' = "panic" /\ UNCHANGED pixels
       ELSE /\ pixels' = nonMaximumSuppression(pixels, angles)
            /\ pc' = "nms"
    /\ UNCHANGED <<input, blur, minRatio, maxRatio, castMode, angles,
                   high, low, strong, weak, todo>>

\* max := maxPixelValue(pixels); high, low; strong, weak := doublethreshold;
\* and edgeTracking's weak.Iterator().
DoubleThresholdStep ==
    /\ pc = "nms"
    /\ LET max == maxPixelValue(pixels)
           hi == maxRatio * max
           lo == minRatio * max
           r == doublethreshold(pixels, hi, lo)
       IN  /\ high' = hi
           /\ low' = lo
           /\ strong' = r.strong
           /\ weak' = r.weak
           /\ todo' = r.weak
           /\ pixels' = r.pixels
    /\ pc' = "tracking"
    /\ UNCHANGED <<input, blur, minRatio, maxRatio, castMode, angles>>

\* A variant of edgeTracking's loop body that zeroes only the weak points it
\* does not promote.
edgeTrackingBodyKeepsPromoted(weakPoint) ==
    LET x == weakPoint[1]
        y == weakPoint[2]
        promoted == strong \cap getAdjacentPixels(pixels, x, y) # {}
    IN  /\ strong' = IF promoted THEN strong \cup {weakPoint} ELSE strong
        /\ pixels' = IF promoted THEN pixels ELSE [pixels EXCEPT ![y][x].y = 0]

\* The body of edgeTracking's loop, for the weak point the iterator yields.
edgeTrackingBody(weakPoint) ==
    LET x == weakPoint[1]
        y == weakPoint[2]
        neighbours == getAdjacentPixels(pixels, x, y)
    IN  /\ strong' = IF strong \cap neighbours # {}
                     THEN strong \cup {weakPoint}
                     ELSE strong
        /\ pixels' = [pixels EXCEPT ![y][x].y = 0]

EdgeTrackingStep ==
    /\ pc = "tracking"
    /\ \E weakPoint \in todo :
          /\ edgeTrackingBody(weakPoint)
          /\ todo' = todo \ {weakPoint}
    /\ UNCHANGED <<input, blur, minRatio, maxRatio, castMode, angles,
                   high, low, weak, pc>>

\* return pixels
Return ==
    /\ pc = "tracking"
    /\ todo = {}
    /\ pc' = "done"
    /\ UNCHANGED <<input, blur, minRatio, maxRatio, castMode, pixels, angles,
                   high, low, strong, weak, todo>>

Next ==
    \/ BlurStep
    \/ SobelStep
    \/ NonMaximumSuppressionStep
    \/ DoubleThresholdStep
    \/ EdgeTrackingStep
    \/ Return

Spec == Init /\ [][Next]_vars

\* The runs on 5 x 5 grids, the all-zero grid among them.
ZeroGrid5 == Grid(5, 5, <<-1, -1>>, 0)

Inputs5 ==
    {ZeroGrid5} \cup {Grid(5, 5, <<x, y>>, v) : x \in 0..4, y \in 0..4, v \in Levels}

Init5 == Entry(Inputs5)

Spec5 == Init5 /\ [][Next]_vars

\* nonMaximumSuppression called on its own: magnitude grids of 1..MaxNmsDim
\* rows and columns over NmsLevels, with one direction for the whole field,
\* one per bucket (atan of -3, -1, 0, 1, 3: -71.6, -45, 0, 45, 71.6
\* degrees).
MaxNmsDim == 2

NmsLevels == {0, 10, 20}

Tangents == {[num |-> n, den |-> 1] : n \in {-3, -1, 0, 1, 3}}

NmsGrids ==
    UNION {[0..(h - 1) -> [0..(w - 1) -> {GrayPixel(v, 255) : v \in NmsLevels}]] :
           h \in 1..MaxNmsDim, w \in 1..MaxNmsDim}

InitNms ==
    /\ pixels \in NmsGrids
    /\ \E t \in Tangents :
          angles = [y \in Rows(pixels) |-> [x \in Cols(pixels) |-> t]]
    /\ input = pixels
    /\ blur = FALSE
    /\ minRatio = 0
    /\ maxRatio = 0
    /\ castMode = "wrap"
    /\ high = 0
    /\ low = 0
    /\ strong = {}
    /\ weak = {}
    /\ todo = {}
    /\ pc = "sobel"

NextNms == NonMaximumSuppressionStep

SpecNms == InitNms /\ [][NextNms]_vars

---------------------------------------------------------------------------
(* Definitions the claims are stated with. *)

\* The grid doublethreshold is handed: the stages before it, composed.
Magnitudes ==
    LET b == IF blur THEN gaussianBlur(input, KernelSize, castMode) ELSE input
        r == sobel(b, castMode)
    IN  nonMaximumSuppression(r.result, r.directions)

Intensities(p) == {p[y][x].y : y \in Rows(p), x \in Cols(p)}

SameShape(p, q) == Height(p) = Height(q) /\ Width(p) = Width(q)

---------------------------------------------------------------------------
\* C1: every pixel of the grid CannyEdgeDetect returns has intensity 0 or
\* 255.
C1_OutputIsBinary ==
    pc = "done" => Intensities(pixels) \subseteq {0, 255}

\* C2: CannyEdgeDetect completes without failing on every non-empty
\* rectangular grid, and returns a grid of the input's dimensions.
C2_CompletesWithSameShape ==
    /\ pc # "panic"
    /\ pc = "done" => SameShape(pixels, input)

---------------------------------------------------------------------------
\* The scenario of C3: the 3 x 3 grid with a single bright center, ratios
\* 0.2 and 0.6, no blur.
C3_Scenario ==
    /\ input = Grid(3, 3, <<1, 1>>, 255)
    /\ ~blur
    /\ minRatio = 4
    /\ maxRatio = 12

\* C3 as claimed: in the scenario the center is placed in the Strong Set by
\* Double Threshold and is 255 in the returned grid, whose 8 border pixels
\* are 0.
C3_CenterStrongAndKept ==
    C3_Scenario =>
        /\ pc \in {"tracking", "done"} => <<1, 1>> \in strong
        /\ pc = "done" =>
              \A c \in Coords(pixels) :
                 pixels[c[2]][c[1]].y = IF c = <<1, 1>> THEN 255 ELSE 0

\* C3 as amended: in the scenario the run completes, the Sobel responses
\* cancel at every pixel (the center's weight is 0 in both kernels and the
\* reflected windows are symmetric), so Double Threshold places no
\* coordinate in the Strong or the Weak Set, and every pixel of the returned
\* 3 x 3 grid, the center included, is 0.
C3_CenterNotStrongAllZero ==
    C3_Scenario =>
        /\ pc # "panic"
        /\ pc \in {"sobel", "nms", "tracking", "done"} =>
              /\ SameShape(pixels, input)
              /\ Intensities(pixels) = {0}
        /\ pc \in {"tracking", "done"} => strong = {} /\ weak = {}

C3_ScenarioReturned == C3_Scenario /\ pc = "done"

---------------------------------------------------------------------------
\* C4: on the all-zero 5 x 5 grid, for every ratio pair and with blur on or
\* off, CannyEdgeDetect does not fail, runs to its return, and returns an
\* all-zero 5 x 5 grid.
C4_ZeroGridStaysZero ==
    input = ZeroGrid5 =>
        /\ pc # "panic"
        /\ pc = "done" \/ ENABLED Next
        /\ pc = "done" => pixels = ZeroGrid5

C4_ZeroGridBlurredReturned ==
    /\ input = ZeroGrid5
    /\ blur
    /\ minRatio > maxRatio
    /\ pc = "done"

---------------------------------------------------------------------------
\* The 8-connected neighbourhood of <<x, y>> clipped to the grid.
EightNeighbours(p, x, y) ==
    {c \in Coords(p) :
        /\ c # <<x, y>>
        /\ abs(c[1] - x) <= 1
        /\ abs(c[2] - y) <= 1}

\* C5: the neighbourhood edgeTracking computes for a weak coordinate is its
\* 8-connected neighbourhood clipped to the grid.
C5_NeighbourhoodIsEightConnected ==
    pc = "tracking" =>
        \A w \in todo :
           getAdjacentPixels(pixels, w[1], w[2]) = EightNeighbours(pixels, w[1], w[2])

---------------------------------------------------------------------------
\* The least coordinate of S in row-major order.
FirstOf(S) ==
    CHOOSE c \in S : \A d \in S : c[2] < d[2] \/ (c[2] = d[2] /\ c[1] <= d[1])

\* The Strong Set edgeTracking ends with when the weak coordinates of rest
\* are visited in row-major order.
RECURSIVE TrackRowMajor(_, _, _)
TrackRowMajor(p, s, rest) ==
    IF rest = {} THEN s
    ELSE LET w == FirstOf(rest)
             s1 == IF s \cap getAdjacentPixels(p, w[1], w[2]) # {}
                   THEN s \cup {w}
                   ELSE s
         IN  TrackRowMajor(p, s1, rest \ {w})

\* C6: edgeTracking's result does not depend on the order in which the Weak
\* Set is visited: whatever order a run took, it ends with the Strong Set
\* that the row-major order ends with (the Strong Set of Double Threshold is
\* strong \ weak), and with the same grid, every weak pixel zeroed.
C6_OrderIndependent ==
    pc = "done" =>
        /\ strong = TrackRowMajor(pixels, strong \ weak, weak)
        /\ \A w \in weak : pixels[w[2]][w[1]].y = 0

---------------------------------------------------------------------------
---------------------------------------------------------------------------
\* The in-bounds cell mirrored from window position i: index k at the low
\* edge, size - 1 - k at the high edge, for a position k cells past it.
Mirrored(i, size) ==
    IF i < 0 THEN -i
    ELSE IF i >= size THEN (size - 1) - (i - (size - 1))
    ELSE i

\* C8: every window position past a grid edge is read from the mirrored
\* in-bounds cell, per axis, for the 3 x 3 window of sobel and for the 5-tap
\* windows of gaussianBlur.
C8_WindowMirrorsAtEdge ==
    /\ pc = "blurred" =>
          \A y \in Rows(input), x \in Cols(input), k \in 0..(KernelSize - 1) :
             LET i == k - (KernelSize \div 2)
             IN  /\ VectorCoords(input, y, x, KernelSize, "HORIZONTAL")[k]
                       = <<y, Mirrored(x + i, Width(input))>>
                 /\ VectorCoords(input, y, x, KernelSize, "VERTICAL")[k]
                       = <<Mirrored(y + i, Height(input)), x>>
    /\ pc = "sobel" =>
          \A y \in Rows(input), x \in Cols(input), k \in 0..(SobelSize * SobelSize - 1) :
             MatrixCoords(input, y, x, SobelSize)[k]
                = <<Mirrored(y - (SobelSize \div 2) + (k \div SobelSize), Height(input)),
                    Mirrored(x - (SobelSize \div 2) + (k % SobelSize), Width(input))>>

---------------------------------------------------------------------------
---------------------------------------------------------------------------
\* C10: the returned grid does not depend on minRatio: it is the grid of
\* magnitudes after Non-Maximum Suppression with every pixel that is not
\* strictly above maxRatio * maxMagnitude zeroed, the same for every
\* minRatio; a weak pixel is zeroed whether promoted or not.
C10_OutputIgnoresMinRatio ==
    pc = "done" =>
        LET m == Magnitudes
            hi == maxRatio * maxPixelValue(m)
        IN  pixels = [y \in Rows(m) |-> [x \in Cols(m) |->
                        IF RatioDen * m[y][x].y > hi
                        THEN m[y][x]
                        ELSE [m[y][x] EXCEPT !.y = 0]]]

\* A run that returned, in which a weak pixel was promoted to the Strong Set
\* and a strong pixel kept its magnitude.
C10_PromotedWeakZeroed ==
    /\ pc = "done"
    /\ minRatio < maxRatio
    /\ strong \cap weak # {}
    /\ weak \ strong # {}
    /\ \E c \in strong \ weak : pixels[c[2]][c[1]].y > 0
    /\ \A c \in weak : pixels[c[2]][c[1]].y = 0

=============================================================================
